---- MODULE Spec2Model ----
(***************************************************************************)
(* A model of DataEncoder (encoder.py): anchor lattice generation, target  *)
(* encoding and prediction decoding for an anchor based detector.          *)
(*                                                                         *)
(* Numbers.  The program computes on float tensors.  Here a real number    *)
(* is an exact rational <<n, d>> in lowest terms with d > 0.  Irrational   *)
(* results (math.sqrt, pow(2, 1/3.)) are rounded down to a multiple of     *)
(* 1/Prec, which stands for the rounding of the float format.  A logarithm *)
(* is kept symbolically: [coef |-> c, arg |-> a] stands for c * ln(a), so  *)
(* that scaling by 5, dividing by 5 and exp act on it as they do on reals. *)
(***************************************************************************)
EXTENDS Integers, Sequences, FiniteSets, TLC

\* Resolution of rounded irrational values: multiples of 1/Prec.
Prec == 4

----------------------------------------------------------------------------
(* Rational arithmetic: the float operators +, -, *, /, <, min, max.       *)

Abs(x) == IF x < 0 THEN -x ELSE x

RECURSIVE GCD(_, _)
GCD(a, b) == IF b = 0 THEN Abs(a) ELSE GCD(b, a % b)

Rat(n, d) ==
    LET g == GCD(Abs(n), Abs(d))
        s == IF d < 0 THEN -1 ELSE 1
    IN  <<(s * n) \div g, (s * d) \div g>>

RInt(k) == <<k, 1>>

RAdd(a, b) ==
    LET g == GCD(a[2], b[2])
    IN  Rat(a[1] * (b[2] \div g) + b[1] * (a[2] \div g), (a[2] \div g) * b[2])

RSub(a, b) == RAdd(a, <<-b[1], b[2]>>)

RMul(a, b) ==
    LET g1 == GCD(Abs(a[1]), b[2])
        g2 == GCD(Abs(b[1]), a[2])
    IN  <<(a[1] \div g1) * (b[1] \div g2), (a[2] \div g2) * (b[2] \div g1)>>

RDiv(a, b) ==
    RMul(a, IF b[1] < 0 THEN <<-b[2], -b[1]>> ELSE <<b[2], b[1]>>)

\* a/b < c/d for b, d > 0, by the continued fractions of the two quotients
\* (no product is formed, so large terms cannot overflow).
RECURSIVE frac_lt(_, _, _, _)
frac_lt(a, b, c, d) ==
    IF a \div b # c \div d THEN a \div b < c \div d
    ELSE IF c % d = 0 THEN FALSE
    ELSE IF a % b = 0 THEN TRUE
    ELSE frac_lt(d, c % d, b, a % b)

RLt(a, b) == frac_lt(a[1], a[2], b[1], b[2])

RLe(a, b) == ~RLt(b, a)

RMax(a, b) == IF RLt(a, b) THEN b ELSE a

RMin(a, b) == IF RLt(b, a) THEN b ELSE a

\* The largest m >= m0 with (m / Prec)^q <= n / d, found upwards from m0.
RECURSIVE RootUp(_, _, _, _)
RootUp(m, q, n, d) ==
    IF ((m + 1) ^ q) * d > n * (Prec ^ q) THEN m ELSE RootUp(m + 1, q, n, d)

\* The q-th root of a rational r >= 0, rounded down to a multiple of 1/Prec.
RRoot(r, q) == Rat(RootUp(0, q, r[1], r[2]), Prec)

RECURSIVE ISqrtB(_, _, _)
ISqrtB(lo, hi, n) ==
    IF lo >= hi THEN lo
    ELSE LET mid == (lo + hi + 1) \div 2
         IN  IF mid * mid <= n THEN ISqrtB(mid, hi, n)
                               ELSE ISqrtB(lo, mid - 1, n)

\* math.sqrt of a rational r >= 0, rounded down to a multiple of 1/Prec.
RSqrt(r) == Rat(ISqrtB(0, 46340, (r[1] * Prec * Prec) \div r[2]), Prec)

\* A value stored as a float: rounded down to a multiple of 1/Prec.
Fl(r) == Rat((r[1] * Prec) \div r[2], Prec)

\* ceil and floor of h / k for integers h >= 0, k > 0.
Ceil(h, k) == (h + k - 1) \div k

Floor(h, k) == h \div k

----------------------------------------------------------------------------
(* DataEncoder.__init__ and _get_anchor_wh                                 *)

anchor_areas == <<32 * 32, 64 * 64, 128 * 128, 256 * 256, 512 * 512>>

aspect_ratios == <<Rat(1, 2), Rat(1, 1), Rat(2, 1)>>

scale_ratios == <<RInt(1), RRoot(RInt(2), 3), RRoot(RInt(4), 3)>>

num_fms == Len(anchor_areas)

\* One [anchor_w, anchor_h] entry of the list built by the three loops.
anchor_wh_entry(s, ar, sr) ==
    LET h == RSqrt(RDiv(RInt(s), ar))
        w == RMul(ar, h)
    IN  <<Fl(RMul(w, sr)), Fl(RMul(h, sr))>>

\* anchor_wh[i][k]: level i (1..5), k = 3 * (aspect ratio index) + scale index + 1.
get_anchor_wh ==
    [i \in 1..num_fms |->
        [k \in 1..9 |->
            anchor_wh_entry(anchor_areas[i],
                            aspect_ratios[((k - 1) \div 3) + 1],
                            scale_ratios[((k - 1) % 3) + 1])]]

anchor_wh == get_anchor_wh

----------------------------------------------------------------------------
(* utils.meshgrid and DataEncoder._get_anchor_boxes                        *)

\* meshgrid(x, y): the x*y grid points <<col, row>> in row-major order.
meshgrid(x, y) == [j \in 1..(x * y) |-> <<(j - 1) % x, (j - 1) \div x>>]

\* A pyramid one level coarser, from stride 16 to stride 256: the anchor count
\* of C8 tells it from fm_sizes.
fm_sizes_coarser(input_size) ==
    [i \in 1..num_fms |->
        <<Ceil(input_size[1], 2 ^ (i + 3)), Ceil(input_size[2], 2 ^ (i + 3))>>]

\* p3 -> p7 feature map sizes, each <<fm_h, fm_w>>.
fm_sizes(input_size) ==
    [i \in 1..num_fms |->
        <<Ceil(input_size[1], 2 ^ (i + 2)), Ceil(input_size[2], 2 ^ (i + 2))>>]

\* (input_size / fm_size).floor(), elementwise: <<from the height, from the width>>.
grid_size_of(input_size, fm_size) ==
    <<Floor(input_size[1], fm_size[1]), Floor(input_size[2], fm_size[2])>>

\* (xy + 0.5) * grid_size for one grid point: the product is elementwise, so
\* the x coordinate takes grid_size[0] and the y coordinate grid_size[1].
anchor_xy(pt, grid_size) ==
    <<Rat((2 * pt[1] + 1) * grid_size[1], 2), Rat((2 * pt[2] + 1) * grid_size[2], 2)>>

\* The boxes [x, y, w, h] of level i, flattened from [fm_h, fm_w, 9, 4].
level_boxes(input_size, i) ==
    LET fm_size   == fm_sizes(input_size)[i]
        grid_size == grid_size_of(input_size, fm_size)
        fm_h      == fm_size[1]
        fm_w      == fm_size[2]
        xy        == meshgrid(fm_w, fm_h)
    IN  [k \in 1..(fm_h * fm_w * 9) |->
            LET c  == anchor_xy(xy[((k - 1) \div 9) + 1], grid_size)
                wh == anchor_wh[i][((k - 1) % 9) + 1]
            IN  <<c[1], c[2], wh[1], wh[2]>>]

\* Rows of level i: the size of view(fm_h, fm_w, 1, 2).expand(fm_h, fm_w, 9, 2)
\* after view(-1, 4).
level_rows(input_size, i) ==
    fm_sizes(input_size)[i][1] * fm_sizes(input_size)[i][2] * 9

RECURSIVE rows_before(_, _)
rows_before(input_size, i) ==
    IF i <= 1 THEN 0
    ELSE rows_before(input_size, i - 1) + level_rows(input_size, i - 1)

\* Row k of torch.cat(boxes, 0), looked for from level i on.
RECURSIVE cat_row(_, _, _)
cat_row(input_size, i, k) ==
    IF k <= level_rows(input_size, i) THEN level_boxes(input_size, i)[k]
    ELSE cat_row(input_size, i + 1, k - level_rows(input_size, i))

\* Number of anchors: the rows of torch.cat(boxes, 0).
num_anchors(input_size) == rows_before(input_size, num_fms + 1)

get_anchor_boxes(input_size) ==
    [k \in 1..num_anchors(input_size) |-> cat_row(input_size, 1, k)]

----------------------------------------------------------------------------
(* utils.change_box_order and utils.box_iou                                *)

\* (xmin, ymin, xmax, ymax) -> (cx, cy, w, h)
xyxy2xywh(b) ==
    <<RDiv(RAdd(b[1], b[3]), RInt(2)), RDiv(RAdd(b[2], b[4]), RInt(2)),
      RSub(b[3], b[1]), RSub(b[4], b[2])>>

\* (cx, cy, w, h) -> (xmin, ymin, xmax, ymax)
xywh2xyxy(b) ==
    <<RSub(b[1], RDiv(b[3], RInt(2))), RSub(b[2], RDiv(b[4], RInt(2))),
      RAdd(b[1], RDiv(b[3], RInt(2))), RAdd(b[2], RDiv(b[4], RInt(2)))>>

box_area(b) == RMul(RSub(b[3], b[1]), RSub(b[4], b[2]))

\* Overlap area of two corner-form boxes (0 when they do not meet).
box_inter(a, b) ==
    LET w == RMax(RInt(0), RSub(RMin(a[3], b[3]), RMax(a[1], b[1])))
        h == RMax(RInt(0), RSub(RMin(a[4], b[4]), RMax(a[2], b[2])))
    IN  RMul(w, h)

box_union(a, b) == RSub(RAdd(box_area(a), box_area(b)), box_inter(a, b))

\* IoU of two corner-form boxes whose union is not empty.
iou_xyxy(a, b) == RDiv(box_inter(a, b), box_union(a, b))

\* box_iou(box1, box2, order='xywh') for one pair of boxes.
box_iou(a, b) == iou_xyxy(xywh2xyxy(a), xywh2xyxy(b))

----------------------------------------------------------------------------
(* Tensor helpers                                                          *)

\* A tensor held in memory: every row of the function t on 1..n computed once.
tensor(t, n) == SubSeq(t, 1, n)

\* t.max(): <<value, index>> of the first largest entry of a non-empty row.
RECURSIVE max_from(_, _, _)
max_from(row, j, best) ==
    IF j > Len(row) THEN best
    ELSE max_from(row, j + 1, IF RLt(best[1], row[j]) THEN <<row[j], j>> ELSE best)

row_max(row) == max_from(row, 2, <<row[1], 1>>)

\* A symbolic logarithm: coef * ln(arg), arg > 0.
log(r) == [coef |-> RInt(1), arg |-> r]

\* exp(coef * ln(arg)) = arg ^ coef: exact for coef = 1; for coef = 1/5^j (a
\* logarithm divided by the scale factor more than once) the fifth root taken
\* j times, each rounded down to a multiple of 1/Prec.
RECURSIVE exp(_)
exp(l) ==
    IF l.coef = RInt(1) \/ l.arg = RInt(1) THEN l.arg
    ELSE exp([coef |-> RMul(l.coef, RInt(5)), arg |-> RRoot(l.arg, 5)])

scale_factor == <<10, 10, 5, 5>>

\* [tx, ty, tw, th] * scale_factor
mul_scale(t) ==
    <<RMul(t[1], RInt(scale_factor[1])), RMul(t[2], RInt(scale_factor[2])),
      [coef |-> RMul(t[3].coef, RInt(scale_factor[3])), arg |-> t[3].arg],
      [coef |-> RMul(t[4].coef, RInt(scale_factor[4])), arg |-> t[4].arg]>>

\* [tx, ty, tw, th] / scale_factor
div_scale(t) ==
    <<RDiv(t[1], RInt(scale_factor[1])), RDiv(t[2], RInt(scale_factor[2])),
      [coef |-> RDiv(t[3].coef, RInt(scale_factor[3])), arg |-> t[3].arg],
      [coef |-> RDiv(t[4].coef, RInt(scale_factor[4])), arg |-> t[4].arg]>>

\* torch.Tensor([input_size, input_size]) for an int, torch.Tensor(input_size)
\* for a tuple (input_height, input_width).
\* An int is written <<s>> here.
size_tensor(input_size) ==
    IF Len(input_size) = 1 THEN <<input_size[1], input_size[1]>> ELSE input_size

----------------------------------------------------------------------------
(* DataEncoder.encode                                                      *)

\* ious.max(1) for one anchor: <<max_iou, max_id>> over the ground truth.
anchor_max(anchor, boxes) ==
    row_max([j \in 1..Len(boxes) |-> box_iou(anchor, boxes[j])])

\* An ignore band reaching up to 0.6: the foreground threshold of C2 tells it
\* from cls_target.
cls_target_wide_ignore(max_iou, label) ==
    LET c0 == 1 + label
        c1 == IF RLt(max_iou, Rat(4, 10)) THEN 0 ELSE c0
        ignore == RLt(Rat(4, 10), max_iou) /\ RLt(max_iou, Rat(6, 10))
    IN  IF ignore THEN -1 ELSE c1

\* cls_targets for one anchor: 1 + labels[max_ids], then the two overrides.
cls_target(max_iou, label) ==
    LET c0 == 1 + label
        c1 == IF RLt(max_iou, Rat(4, 10)) THEN 0 ELSE c0
        ignore == RLt(Rat(4, 10), max_iou) /\ RLt(max_iou, Rat(5, 10))
    IN  IF ignore THEN -1 ELSE c1

\* loc_targets for one anchor and the box matched to it (both [x, y, w, h]).
loc_target(anchor, box) ==
    mul_scale(<<RDiv(RSub(box[1], anchor[1]), anchor[3]),
                RDiv(RSub(box[2], anchor[2]), anchor[4]),
                log(RDiv(box[3], anchor[3])),
                log(RDiv(box[4], anchor[4]))>>)

\* Everything encode computes for anchor k; boxes are in [x, y, w, h] order.
\* labels[max_ids] is read only when the index is in range.
encode_row(anchor, boxes, labels) ==
    LET m == anchor_max(anchor, boxes)
    IN  [max_iou |-> m[1],
         max_id  |-> m[2],
         loc     |-> loc_target(anchor, boxes[m[2]]),
         cls     |-> IF m[2] <= Len(labels)
                     THEN cls_target(m[1], labels[m[2]]) ELSE 0]

\* What encode computes for every anchor (lines 85-99), as rows 1..#anchors.
encode_rows(boxes, labels, input_size) ==
    LET size == size_tensor(input_size)
        xywh == [j \in 1..Len(boxes) |-> xyxy2xywh(boxes[j])]
    IN  [k \in 1..num_anchors(size) |->
            encode_row(get_anchor_boxes(size)[k], xywh, labels)]

\* Whether encode raises: ious.max(1) fails on a matrix with no columns, and
\* labels[max_ids] fails on an index past the end of labels.
encode_raises(boxes, labels, input_size) ==
    \/ Len(boxes) = 0
    \/ /\ Len(labels) < Len(boxes)
       /\ \E k \in 1..num_anchors(size_tensor(input_size)) :
             encode_rows(boxes, labels, input_size)[k].max_id > Len(labels)

\* torch.cat([loc_xy, loc_wh], 1) * scale_factor and cls_targets, as returned.
targets_of(rows, n) ==
    <<[k \in 1..n |-> rows[k].loc], [k \in 1..n |-> rows[k].cls]>>

\* encode(boxes, labels, input_size) = <<loc_targets, cls_targets>>
encode(boxes, labels, input_size) ==
    targets_of(encode_rows(boxes, labels, input_size),
               num_anchors(size_tensor(input_size)))

----------------------------------------------------------------------------
(* utils.box_nms and DataEncoder.decode                                    *)

CLS_THRESH == Rat(5, 100)

NMS_THRESH == Rat(5, 10)

\* IoU(a, b) >= threshold on corner-form boxes; false when the union is empty
\* (the quotient is then not a number).
iou_at_least(a, b, threshold) ==
    /\ box_union(a, b) # RInt(0)
    /\ RLe(threshold, iou_xyxy(a, b))

\* Insert index i into order (indices by descending score, ties in index order).
RECURSIVE insert_desc(_, _, _)
insert_desc(order, i, scores) ==
    IF order = <<>> THEN <<i>>
    ELSE IF RLt(scores[Head(order)], scores[i])
         THEN <<i>> \o order
         ELSE <<Head(order)>> \o insert_desc(Tail(order), i, scores)

RECURSIVE sort_desc(_, _)
sort_desc(scores, i) ==
    IF i > Len(scores) THEN <<>>
    ELSE LET rest == sort_desc(scores, i + 1)
         IN  IF rest = <<>> THEN <<i>>
             ELSE IF RLt(scores[i], scores[Head(rest)])
                  THEN <<Head(rest)>> \o insert_desc(Tail(rest), i, scores)
                  ELSE <<i>> \o rest

RECURSIVE nms_loop(_, _, _)
nms_loop(order, boxes, threshold) ==
    IF order = <<>> THEN <<>>
    ELSE LET i    == Head(order)
             rest == SelectSeq(Tail(order),
                        LAMBDA j : ~iou_at_least(boxes[i], boxes[j], threshold))
         IN  <<i>> \o nms_loop(rest, boxes, threshold)

\* box_nms(bboxes, scores, threshold): the indices kept, highest score first.
box_nms(bboxes, scores, threshold) ==
    nms_loop(sort_desc(scores, 1), bboxes, threshold)

\* cls_preds.max(1) for one row: <<score, label>>, label the class index from 0.
cls_max(row) == <<row_max(row)[1], row_max(row)[2] - 1>>

\* loc_preds /= scale_factor: the rows of loc_preds after decode, which
\* divides the caller's tensor in place.
decode_loc_preds(loc_preds, n) == [k \in 1..n |-> div_scale(loc_preds[k])]

\* The box [xmin, ymin, xmax, ymax] of one anchor from its divided loc_preds row;
\* xy and wh are stored as floats.
decode_box(loc, anchor) ==
    LET x == Fl(RAdd(RMul(loc[1], anchor[3]), anchor[1]))
        y == Fl(RAdd(RMul(loc[2], anchor[4]), anchor[2]))
        w == Fl(RMul(exp(loc[3]), anchor[3]))
        h == Fl(RMul(exp(loc[4]), anchor[4]))
    IN  <<RSub(x, RDiv(w, RInt(2))), RSub(y, RDiv(h, RInt(2))),
          RAdd(x, RDiv(w, RInt(2))), RAdd(y, RDiv(h, RInt(2)))>>

\* The four clamp_ calls; size = <<input_height, input_width>>.
clamp_box(box, size) ==
    <<RMax(box[1], RInt(0)), RMax(box[2], RInt(0)),
      RMin(box[3], RInt(size[2])), RMin(box[4], RInt(size[1]))>>

\* boxes after the clamps, one per anchor.
decode_boxes(loc_preds, input_size) ==
    LET size == size_tensor(input_size)
    IN  [k \in 1..num_anchors(size) |->
            clamp_box(decode_box(div_scale(loc_preds[k]), get_anchor_boxes(size)[k]),
                      size)]

\* Whether a row of cls_preds passes (score > CLS_THRESH) & (labels > 0).
passes(row) == RLt(CLS_THRESH, cls_max(row)[1]) /\ cls_max(row)[2] > 0

\* ids.nonzero(): the rows of cls_preds that pass, in increasing order.
RECURSIVE nonzero_ids(_, _)
nonzero_ids(cls_preds, i) ==
    IF i > Len(cls_preds) THEN <<>>
    ELSE (IF passes(cls_preds[i]) THEN <<i>> ELSE <<>>)
         \o nonzero_ids(cls_preds, i + 1)

\* The anchors of the detections decode returns: ids[keep].
decode_kept(loc_preds, cls_preds, input_size) ==
    LET ids   == nonzero_ids(cls_preds, 1)
        boxes == decode_boxes(loc_preds, input_size)
        keep  == box_nms([i \in 1..Len(ids) |-> boxes[ids[i]]],
                         [i \in 1..Len(ids) |-> cls_max(cls_preds[ids[i]])[1]],
                         NMS_THRESH)
    IN  [i \in 1..Len(keep) |-> ids[keep[i]]]

\* Whether decode raises.  Where tensors may have no dimension or an empty
\* one (dim0), squeeze() of a one-element index leaves it no dimension, and
\* boxes[ids] is then one row, which has no columns to take; an empty index
\* keeps its empty dimension.  Where every tensor has a dimension of at
\* least one element, the one-element index keeps its dimension, and
\* nonzero() of an all-zero mask is a tensor without elements or dimension,
\* which cannot index boxes.
decode_raises(cls, dim0) ==
    LET n == Len(nonzero_ids(cls, 1))
    IN  (dim0 /\ n = 1) \/ (~dim0 /\ n = 0)

\* decode(loc_preds, cls_preds, input_size) = <<boxes, labels>>
decode(loc_preds, cls_preds, input_size) ==
    LET kept  == decode_kept(loc_preds, cls_preds, input_size)
        boxes == decode_boxes(loc_preds, input_size)
    IN  <<[i \in 1..Len(kept) |-> boxes[kept[i]]],
          [i \in 1..Len(kept) |-> cls_max(cls_preds[kept[i]])[2]]>>

----------------------------------------------------------------------------
(* Inputs of the calls                                                     *)

\* Most calls of decode on one tensor of predictions.
MaxDecodes == 2

\* input_size as the caller gives it: an int <<s>>, or (input_height, input_width).
InputSizes == {<<24>>, <<16, 20>>}

Box(xmin, ymin, xmax, ymax) == <<RInt(xmin), RInt(ymin), RInt(xmax), RInt(ymax)>>

\* The box of test(): 32 x 32, centred in the first cell of stride 8.
TestBox == Box(-12, -12, 20, 20)

\* A 32 x 80 box around the box of test().
TallBox == Box(-12, -36, 20, 44)

BoxInputs == {<<>>, <<TestBox>>, <<TallBox>>, <<TestBox, TallBox>>}

LabelInputs == {<<>>, <<2>>, <<0, 1>>}

\* Rows of cls_preds over the classes 0..3 (0 is the background).
OneHot(c) == [j \in 1..4 |-> IF j = c + 1 THEN RInt(1) ELSE RInt(0)]

ScoreAt(c, score) == [j \in 1..4 |-> IF j = c + 1 THEN score ELSE RInt(0)]

\* cls_preds built beside regression targets: one confident row, as in
\* test(), or two rows.
TargetClsInputs == {<<OneHot(3)>>, <<OneHot(3), ScoreAt(1, Rat(6, 100))>>}

ClsInputs ==
    {<<OneHot(3)>>,
     <<ScoreAt(3, Rat(4, 100))>>,
     <<OneHot(0), ScoreAt(2, CLS_THRESH)>>,
     <<ScoreAt(1, Rat(6, 100)), OneHot(0), OneHot(2)>>}

\* Rows of loc_preds that are not regression targets: [tx, ty, tw, th].
LocVec(tx, ty, aw, ah) ==
    <<RInt(tx), RInt(ty), [coef |-> RInt(5), arg |-> aw], [coef |-> RInt(5), arg |-> ah]>>

LocInputs ==
    {LocVec(20, -20, Rat(1, 2), RInt(2)),
     LocVec(-3, 4, RInt(2), Rat(1, 2))}

----------------------------------------------------------------------------
(* State                                                                   *)

VARIABLES
    pc,            \* "ready", "encoded", "preds", "decoded" or "tested"
    input_size,    \* the model input size every call is given
    zero_dim,      \* this build's tensors may have no dimension or an empty one
    anchor_boxes,  \* encode's anchor_boxes, [x, y, w, h] per anchor
    boxes,         \* encode's boxes argument (corner form)
    labels,        \* encode's labels argument
    enc_status,    \* "none", "ok" or "error": how encode ended
    max_ious,      \* encode's max_ious, one per anchor
    max_ids,       \* encode's max_ids, one per anchor (from 1)
    loc_targets,   \* the tensor encode returned
    cls_targets,   \* the tensor encode returned
    loc_preds,     \* the tensor the caller hands to decode
    cls_preds,     \* the tensor the caller hands to decode
    aliased,       \* loc_preds is the very tensor loc_targets
    n_decodes,     \* calls of decode on loc_preds so far
    dec_status,    \* "none", "ok" or "error": how the last decode ended
    kept,          \* the anchors of the detections the last decode returned
    out_boxes,     \* the boxes the last decode returned
    out_labels,    \* the labels the last decode returned
    test_out       \* what test() printed for boxes_ and labels_

vars == <<pc, input_size, zero_dim, anchor_boxes, boxes, labels, enc_status,
          max_ious, max_ids, loc_targets, cls_targets, loc_preds, cls_preds,
          aliased, n_decodes, dec_status, kept, out_boxes, out_labels, test_out>>

enc_vars == <<anchor_boxes, boxes, labels, enc_status, max_ious, max_ids, cls_targets>>

\* What no call changes.
env_vars == <<input_size, zero_dim>>

dec_vars == <<n_decodes, dec_status, kept, out_boxes, out_labels>>

N == num_anchors(size_tensor(input_size))

Init ==
    /\ pc = "ready"
    /\ input_size \in InputSizes
    /\ zero_dim \in BOOLEAN
    /\ anchor_boxes = <<>>
    /\ boxes = <<>>
    /\ labels = <<>>
    /\ enc_status = "none"
    /\ max_ious = <<>>
    /\ max_ids = <<>>
    /\ loc_targets = <<>>
    /\ cls_targets = <<>>
    /\ loc_preds = <<>>
    /\ cls_preds = <<>>
    /\ aliased = FALSE
    /\ n_decodes = 0
    /\ dec_status = "none"
    /\ kept = <<>>
    /\ out_boxes = <<>>
    /\ out_labels = <<>>
    /\ test_out = [status |-> "none"]

\* One run of encode with the locals the properties speak of; every tensor
\* is held in memory.
encode_call(b, l, size) ==
    IF encode_raises(b, l, size) THEN [status |-> "error"]
    ELSE LET n    == num_anchors(size_tensor(size))
             rows == tensor(encode_rows(b, l, size), n)
             t    == targets_of(rows, n)
         IN  [status      |-> "ok",
              anchor_boxes |-> get_anchor_boxes(size_tensor(size)),
              max_ious    |-> [k \in 1..n |-> rows[k].max_iou],
              max_ids     |-> [k \in 1..n |-> rows[k].max_id],
              loc_targets |-> t[1],
              cls_targets |-> t[2]]

\* A call encoder.encode(b, l, input_size).
Encode(b, l) ==
    /\ pc = "ready"
    /\ pc' = "encoded"
    /\ boxes' = b
    /\ labels' = l
    /\ \E r \in {encode_call(b, l, input_size)} :
          /\ enc_status' = r.status
          /\ IF r.status = "ok"
             THEN /\ anchor_boxes' = r.anchor_boxes
                  /\ max_ious' = r.max_ious
                  /\ max_ids' = r.max_ids
                  /\ loc_targets' = r.loc_targets
                  /\ cls_targets' = r.cls_targets
             ELSE UNCHANGED <<anchor_boxes, max_ious, max_ids, loc_targets,
                              cls_targets>>
    /\ UNCHANGED <<loc_preds, cls_preds, aliased, test_out>>
    /\ UNCHANGED env_vars
    /\ UNCHANGED dec_vars

\* The caller takes the targets as predictions (loc_preds = loc_targets, as
\* test() does) and builds cls_preds.
TargetsAsPreds(c) ==
    /\ pc = "encoded"
    /\ enc_status = "ok"
    /\ pc' = "preds"
    /\ loc_preds' = loc_targets
    /\ aliased' = TRUE
    /\ cls_preds' = c
    /\ UNCHANGED <<loc_targets, test_out>>
    /\ UNCHANGED env_vars
    /\ UNCHANGED enc_vars
    /\ UNCHANGED dec_vars

\* The caller builds predictions of its own: every row of loc_preds is v.
NewPreds(v, c) ==
    /\ pc = "ready"
    /\ pc' = "preds"
    /\ loc_preds' = [k \in 1..N |-> v]
    /\ aliased' = FALSE
    /\ cls_preds' = c
    /\ UNCHANGED <<loc_targets, test_out>>
    /\ UNCHANGED env_vars
    /\ UNCHANGED enc_vars
    /\ UNCHANGED dec_vars

\* One run of decode that does not raise: the caller's loc_preds after it
\* (the division is in place) and what is returned.
decode_call(loc, cls, size) ==
    [loc_preds |-> decode_loc_preds(loc, num_anchors(size_tensor(size))),
     kept      |-> decode_kept(loc, cls, size),
     boxes     |-> decode(loc, cls, size)[1],
     labels    |-> decode(loc, cls, size)[2]]

\* A call encoder.decode(loc_preds, cls_preds, input_size).  The division of
\* loc_preds is done before anything can raise.
Decode ==
    /\ pc \in {"preds", "decoded"}
    /\ n_decodes < MaxDecodes
    /\ pc' = "decoded"
    /\ n_decodes' = n_decodes + 1
    /\ \E r \in {decode_call(loc_preds, cls_preds, input_size)} :
          /\ loc_preds' = r.loc_preds
          /\ loc_targets' = IF aliased THEN r.loc_preds ELSE loc_targets
          /\ IF decode_raises(cls_preds, zero_dim)
             THEN /\ dec_status' = "error"
                  /\ kept' = <<>>
                  /\ out_boxes' = <<>>
                  /\ out_labels' = <<>>
             ELSE /\ dec_status' = "ok"
                  /\ kept' = r.kept
                  /\ out_boxes' = r.boxes
                  /\ out_labels' = r.labels
    /\ UNCHANGED <<cls_preds, aliased, test_out>>
    /\ UNCHANGED env_vars
    /\ UNCHANGED enc_vars

\* test(): input size 600, one 32 x 32 box of label 2 centred in the first
\* cell, loc_preds = loc_targets, cls_preds = zeros(1, 21) with [0, 3] = 1;
\* the value is what it prints for boxes_ and labels_.
test(dim0) ==
    LET in_size == <<600>>
        cls     == <<[j \in 1..21 |-> IF j = 4 THEN RInt(1) ELSE RInt(0)]>>
    IN  IF decode_raises(cls, dim0) THEN [status |-> "error"]
        ELSE [status |-> "ok",
              boxes  |-> decode(encode(<<TestBox>>, <<2>>, in_size)[1], cls, in_size)[1],
              labels |-> decode(encode(<<TestBox>>, <<2>>, in_size)[1], cls, in_size)[2]]

\* A run of test().
Test ==
    /\ pc = "ready"
    /\ pc' = "tested"
    /\ test_out' = test(zero_dim)
    /\ UNCHANGED <<loc_targets, loc_preds, cls_preds, aliased>>
    /\ UNCHANGED env_vars
    /\ UNCHANGED enc_vars
    /\ UNCHANGED dec_vars

Next ==
    \/ \E b \in BoxInputs, l \in LabelInputs : Encode(b, l)
    \/ \E c \in TargetClsInputs : TargetsAsPreds(c)
    \/ \E v \in LocInputs, c \in ClsInputs : NewPreds(v, c)
    \/ Decode
    \/ Test

Spec == Init /\ [][Next]_vars

----------------------------------------------------------------------------
(* Properties                                                              *)

H == size_tensor(input_size)[1]

W == size_tensor(input_size)[2]

Encoded == enc_status = "ok"

Returned == dec_status = "ok"

\* The least q with q * k >= h, for h >= 0 and k > 0.
CeilDiv(h, k) == CHOOSE q \in 0..h : q * k >= h /\ (q - 1) * k < h

\* Grid cells of pyramid level l (0..4) for an h x w input.
LevelCells(h, w, l) == CeilDiv(h, 2 ^ (l + 3)) * CeilDiv(w, 2 ^ (l + 3))

\* The sum over the levels 0..l of cells * 9.
RECURSIVE LatticeSize(_, _, _)
LatticeSize(h, w, l) ==
    IF l < 0 THEN 0 ELSE LatticeSize(h, w, l - 1) + LevelCells(h, w, l) * 9

\* |a - b| <= 1 / Prec
Near(a, b) == RLe(RSub(a, b), Rat(1, Prec)) /\ RLe(RSub(b, a), Rat(1, Prec))

NearBox(a, b) == \A j \in 1..4 : Near(a[j], b[j])

\* C1: every anchor whose maximum IoU is in [0.4, 0.5), 0.4 included, has
\* classification target -1.
C1_IgnoreBandClosedBelow ==
    Encoded =>
        \A k \in 1..Len(cls_targets) :
            (RLe(Rat(4, 10), max_ious[k]) /\ RLt(max_ious[k], Rat(5, 10)))
                => cls_targets[k] = -1

\* What holds of the ignore band: strictly between 0.4 and 0.5 the target is
\* -1, and an anchor whose maximum IoU is exactly 0.4 keeps 1 + label.
C1_IgnoreBandOpen ==
    Encoded =>
        \A k \in 1..Len(cls_targets) :
            /\ (RLt(Rat(4, 10), max_ious[k]) /\ RLt(max_ious[k], Rat(5, 10)))
                  => cls_targets[k] = -1
            /\ max_ious[k] = Rat(4, 10)
                  => cls_targets[k] = 1 + labels[max_ids[k]]

\* An anchor at exactly 0.4 and one strictly inside the band.
C1_Witness ==
    /\ Encoded
    /\ \E k \in 1..Len(cls_targets) : max_ious[k] = Rat(4, 10)
    /\ \E k \in 1..Len(cls_targets) : cls_targets[k] = -1

\* The IoUs of anchor k with the ground truth, recomputed.
IousOf(k) ==
    [j \in 1..Len(boxes) |-> box_iou(anchor_boxes[k], xyxy2xywh(boxes[j]))]

C3_BoxesInsideImage ==
    Returned =>
        \A i \in 1..Len(out_boxes) :
            /\ RLe(RInt(0), out_boxes[i][1]) /\ RLe(out_boxes[i][1], RInt(W))
            /\ RLe(RInt(0), out_boxes[i][3]) /\ RLe(out_boxes[i][3], RInt(W))
            /\ RLe(RInt(0), out_boxes[i][2]) /\ RLe(out_boxes[i][2], RInt(H))
            /\ RLe(RInt(0), out_boxes[i][4]) /\ RLe(out_boxes[i][4], RInt(H))

\* The case of C4 in the model: one ground-truth box of label l, matched by the
\* first anchor with IoU >= 0.5, and decode called once on the regression
\* targets with a single row of cls_preds, one-hot at l + 1.
RoundTripCase ==
    /\ pc = "decoded"
    /\ aliased
    /\ n_decodes = 1
    /\ Len(boxes) = 1
    /\ Len(labels) = 1
    /\ cls_preds = <<OneHot(labels[1] + 1)>>
    /\ RLe(Rat(5, 10), max_ious[1])

\* C4: encode then decode returns the original box, within tolerance, and
\* the label l + 1; test() returns its 32 x 32 box and the label 3.
C4_RoundTrip ==
    /\ RoundTripCase =>
          /\ Returned
          /\ Len(out_boxes) = 1
          /\ NearBox(out_boxes[1], boxes[1])
          /\ out_labels = <<labels[1] + 1>>
    /\ pc = "tested" =>
          /\ test_out.status = "ok"
          /\ Len(test_out.boxes) = 1
          /\ NearBox(test_out.boxes[1], TestBox)
          /\ test_out.labels = <<3>>

\* C5: encode of an empty ground truth ends without an error, with target 0
\* for every anchor of the lattice.
C5_EmptyGroundTruthIsBackground ==
    (enc_status # "none" /\ boxes = <<>> /\ labels = <<>>) =>
        /\ Encoded
        /\ Len(cls_targets) = N
        /\ \A k \in 1..N : cls_targets[k] = 0

\* C6: encode of boxes and labels of different lengths ends in an error.
C6_MismatchRejected ==
    (enc_status # "none" /\ Len(boxes) # Len(labels)) => enc_status = "error"

\* C7: a call of decode leaves loc_preds and cls_preds as they were, and a
\* further call returns what the call before it returned.
C7_DecodePure ==
    [][pc' = "decoded" =>
          /\ loc_preds' = loc_preds
          /\ cls_preds' = cls_preds
          /\ pc = "decoded" =>
                /\ dec_status' = dec_status
                /\ out_boxes' = out_boxes
                /\ out_labels' = out_labels]_vars

\* C8: the two arrays encode returns have as many entries as the sum over the
\* levels L = 0..4 of ceil(H / 2^(L+3)) * ceil(W / 2^(L+3)) * 9, and so has
\* the lattice of a 600 x 600 input.
C8_AnchorCount ==
    /\ Encoded =>
          /\ Len(loc_targets) = LatticeSize(H, W, 4)
          /\ Len(cls_targets) = LatticeSize(H, W, 4)
          /\ Len(anchor_boxes) = LatticeSize(H, W, 4)
    /\ num_anchors(size_tensor(<<600>>)) = LatticeSize(600, 600, 4)

\* Targets of a non-square input, whose levels differ in rows and columns.
C8_Witness ==
    /\ Encoded
    /\ H # W
    /\ Len(cls_targets) = 99
    /\ Len(loc_targets) = 99

\* The place in the lattice of anchor a (1..9) of cell (r, c) of level l (0..4):
\* levels in order, cells row-major, nine anchors per cell.
PlaceOf(l, r, c, a) ==
    LatticeSize(H, W, l - 1) + (r * CeilDiv(W, 2 ^ (l + 3)) + c) * 9 + a

\* C9: the anchors of cell (r, c) have centre x = (c + 0.5) * stride_x and
\* y = (r + 0.5) * stride_y, with stride_x from the width and stride_y from
\* the height.
C9_CentresFromOwnStride ==
    Encoded =>
        \A l \in 0..4 :
            LET fm_h == CeilDiv(H, 2 ^ (l + 3))
                fm_w == CeilDiv(W, 2 ^ (l + 3))
                stride_y == H \div fm_h
                stride_x == W \div fm_w
            IN  \A r \in 0..(fm_h - 1), c \in 0..(fm_w - 1), a \in 1..9 :
                    /\ anchor_boxes[PlaceOf(l, r, c, a)][1]
                          = Rat((2 * c + 1) * stride_x, 2)
                    /\ anchor_boxes[PlaceOf(l, r, c, a)][2]
                          = Rat((2 * r + 1) * stride_y, 2)

\* A row of cls_preds whose largest score is above 0.05 and first reached at
\* a class other than the background.
Qualifies(row) ==
    \E c \in 2..Len(row) :
        /\ RLt(Rat(5, 100), row[c])
        /\ \A d \in 1..Len(row) : RLe(row[d], row[c]) /\ (d < c => row[d] # row[c])

\* The class (from 0) at which a row first reaches its largest score.
ArgMax(row) ==
    CHOOSE c \in 0..(Len(row) - 1) :
        \A d \in 1..Len(row) :
            RLe(row[d], row[c + 1]) /\ (d < c + 1 => row[d] # row[c + 1])

\* C10: every detection decode returns comes from an anchor that qualifies,
\* with one label per box, and when no anchor qualifies decode returns empty
\* boxes and labels instead of failing.
C10_DetectionsQualify ==
    /\ Returned =>
          /\ Len(out_boxes) = Len(kept)
          /\ Len(out_labels) = Len(kept)
          /\ \A i \in 1..Len(kept) :
                /\ kept[i] \in 1..Len(cls_preds)
                /\ Qualifies(cls_preds[kept[i]])
                /\ out_labels[i] = ArgMax(cls_preds[kept[i]])
                /\ out_labels[i] > 0
    /\ (pc = "decoded" /\ \A i \in 1..Len(cls_preds) : ~Qualifies(cls_preds[i]))
          => (Returned /\ out_boxes = <<>> /\ out_labels = <<>>)

\* What holds of decode's result: whenever decode returns, each detection
\* comes from an anchor that qualifies, with one label per box.
C10_ReturnedQualify ==
    Returned =>
        /\ Len(out_boxes) = Len(kept)
        /\ Len(out_labels) = Len(kept)
        /\ \A i \in 1..Len(kept) :
              /\ Qualifies(cls_preds[kept[i]])
              /\ out_labels[i] = ArgMax(cls_preds[kept[i]])

\* Detections returned while a confident background row is left out.
C10_Witness ==
    /\ Returned
    /\ Len(out_boxes) >= 1
    /\ \E i \in 1..Len(cls_preds) :
          /\ ~Qualifies(cls_preds[i])
          /\ ArgMax(cls_preds[i]) = 0
          /\ cls_preds[i][1] = RInt(1)
====
